---- MODULE Spec2Model ----
(***************************************************************************)
(* Model of the Kafka producer bridge of bottledwater                      *)
(* (src/kafka/bottledwater.c): the circular buffer of in-flight            *)
(* transactions, the send path with its queue-full retry loop, the         *)
(* delivery callback, the checkpointer, backpressure and the main loop.    *)
(*                                                                         *)
(* The program is single-threaded.  Its position is pc:                    *)
(*   "main"       top of the main loop (bottledwater.c:1216)               *)
(*   "begin_wait" inside the while (xact_list_full) loop of on_begin_txn   *)
(*   "produce"    inside the while (!enqueued) loop of send_kafka_msg      *)
(*   "returned"   a row callback returned non-zero to the frame reader     *)
(*   "exited"     exit_nicely has run                                      *)
(* The signal handler may run at any position.                             *)
(***************************************************************************)
EXTENDS Integers, Sequences, FiniteSets, TLC

\* ---------------------------------------------------------------- bounds
\* The ring of the program holds 1000 transactions; the model scales it.
MAX_IN_FLIGHT_TRANSACTIONS == 2
XACT_LIST_LEN == MAX_IN_FLIGHT_TRANSACTIONS + 1
\* begin events the upstream sends in one run: enough to fill the ring, have
\* one more begin wait for a free slot and have a begin use a slot again
MaxTxns == MAX_IN_FLIGHT_TRANSACTIONS + 2
\* row events the upstream sends in one run
MaxRows == 2
\* WAL positions of commit events are 1..MaxLsn
MaxLsn == 2
\* queue-full answers the producer gives to one message
MaxQueueFull == 1
\* commit events outside a transaction a misbehaving upstream sends in one run
MaxUnpaired == 1

Slots == 0 .. (XACT_LIST_LEN - 1)
\* transaction ids: 0 is the snapshot, 7 stands for any other xid
Xids == {0, 7}
Lsns == 1 .. MaxLsn

\* values of errno the program distinguishes (rd_kafka_errno2err)
ErrnoValues == {"none", "queue_full", "other"}

VARIABLES
    xact_list,                \* context->xact_list, the circular buffer
    xact_head,                \* context->xact_head
    xact_tail,                \* context->xact_tail
    fsync_lsn,                \* context->client->repl.fsync_lsn
    taking_snapshot,          \* context->client->taking_snapshot
    error_policy,             \* context->error_policy
    received_shutdown_signal, \* the signal flag
    errno,                    \* the C library's errno
    pc,                       \* position of the program
    arg,                      \* arguments and locals of the handler in progress
    exit_status,              \* status given to exit(), -1 while running
    slot_dropped,             \* replication_slot_drop was called
    inflight,                 \* envelopes held by the Kafka producer
    envelopes,                \* envelopes malloc'ed and not yet freed
    produced,                 \* rows accepted by rd_kafka_produce, in order
    last_ckpt,                \* slots passed by the last maybe_checkpoint
    last_report,              \* the last delivery report on_deliver_msg got
    bp_calls,                 \* backpressure calls made by the current send
    qfull_seen,               \* queue-full answers given to the current send
    n_rows,                   \* row events received so far
    n_txns,                   \* begin events received so far
    open_xact,                \* upstream is between a begin and its commit
    last_call,                \* the last frame reader callback and its arguments
    xacts_in_flight,          \* slots begun and not yet passed by the tail
    n_unpaired,               \* commit events received outside a transaction
    bufs,                     \* the encoded key and value buffers of the
                              \* current send: "none" (NULL), "owned" (the
                              \* caller's), "handed" (the broker client's),
                              \* "freed", "double_free", "use_after_free"
    slot_txn,                 \* for each slot, the number (1, 2, ... in order
                              \* of arrival) of the begin event that last
                              \* initialised it, 0 if none has
    schema,                   \* the Avro schema handed to
                              \* topic_name_from_avro_schema: its namespace
                              \* and its name, strings as sequences of
                              \* characters
    avro_1_8,                 \* the build has AVRO_1_8 defined
    topic_name,               \* what topic_name_from_avro_schema returned
    keepalive_lsn             \* fsync_lsn carried by the standby status update
                              \* of the last backpressure call, -1 if it sent none

vars == <<xact_list, xact_head, xact_tail, fsync_lsn, taking_snapshot,
          error_policy, received_shutdown_signal, errno, pc, arg,
          exit_status, slot_dropped, inflight, envelopes, produced,
          last_ckpt, last_report, bp_calls, qfull_seen, n_rows, n_txns,
          open_xact, last_call, xacts_in_flight, n_unpaired, keepalive_lsn,
          bufs, slot_txn, schema, avro_1_8, topic_name>>

\* The whole program state as one record, so that the C functions can be
\* written as operators from state to state.
State ==
    [xact_list |-> xact_list, xact_head |-> xact_head, xact_tail |-> xact_tail,
     fsync_lsn |-> fsync_lsn, taking_snapshot |-> taking_snapshot,
     error_policy |-> error_policy,
     received_shutdown_signal |-> received_shutdown_signal,
     errno |-> errno, pc |-> pc, arg |-> arg, exit_status |-> exit_status,
     slot_dropped |-> slot_dropped, inflight |-> inflight,
     envelopes |-> envelopes, produced |-> produced, last_ckpt |-> last_ckpt,
     last_report |-> last_report,
     bp_calls |-> bp_calls, qfull_seen |-> qfull_seen, n_rows |-> n_rows,
     n_txns |-> n_txns, open_xact |-> open_xact, last_call |-> last_call,
     xacts_in_flight |-> xacts_in_flight, n_unpaired |-> n_unpaired,
     keepalive_lsn |-> keepalive_lsn, bufs |-> bufs, slot_txn |-> slot_txn]

Become(s) ==
    /\ xact_list' = s.xact_list
    /\ xact_head' = s.xact_head
    /\ xact_tail' = s.xact_tail
    /\ fsync_lsn' = s.fsync_lsn
    /\ taking_snapshot' = s.taking_snapshot
    /\ error_policy' = s.error_policy
    /\ received_shutdown_signal' = s.received_shutdown_signal
    /\ errno' = s.errno
    /\ pc' = s.pc
    /\ arg' = s.arg
    /\ exit_status' = s.exit_status
    /\ slot_dropped' = s.slot_dropped
    /\ inflight' = s.inflight
    /\ envelopes' = s.envelopes
    /\ produced' = s.produced
    /\ last_ckpt' = s.last_ckpt
    /\ last_report' = s.last_report
    /\ bp_calls' = s.bp_calls
    /\ qfull_seen' = s.qfull_seen
    /\ n_rows' = s.n_rows
    /\ n_txns' = s.n_txns
    /\ open_xact' = s.open_xact
    /\ last_call' = s.last_call
    /\ xacts_in_flight' = s.xacts_in_flight
    /\ n_unpaired' = s.n_unpaired
    /\ keepalive_lsn' = s.keepalive_lsn
    /\ bufs' = s.bufs
    /\ slot_txn' = s.slot_txn
    /\ UNCHANGED <<schema, avro_1_8, topic_name>>

\* ------------------------------------------------------ the circular buffer
transaction_info(xid, recvd, pending, lsn) ==
    [xid |-> xid, recvd_events |-> recvd, pending_events |-> pending,
     commit_lsn |-> lsn]

xact_list_length(s) ==
    (XACT_LIST_LEN + s.xact_head + 1 - s.xact_tail) % XACT_LIST_LEN

xact_list_full(s) == xact_list_length(s) = XACT_LIST_LEN - 1

xact_list_empty(s) == xact_list_length(s) = 0

\* ------------------------------------------------------------- exit_nicely
\* An exit that drops the slot of an unfinished snapshot whatever the status.
exit_nicely_drops_on_any_status(s, status) ==
    [s EXCEPT !.slot_dropped = @ \/ s.taking_snapshot,
              !.pc = "exited",
              !.exit_status = status]

exit_nicely(s, status) ==
    [s EXCEPT !.slot_dropped = @ \/ (s.taking_snapshot /\ status # 0),
              !.pc = "exited",
              !.exit_status = status]

\* handle_error returns 0 under the policy "log" and does not return
\* otherwise (vfatal_error / fatal_error call exit_nicely(context, 1)).
handle_error(s) ==
    IF s.error_policy = "log" THEN s ELSE exit_nicely(s, 1)

\* -------------------------------------------------------- maybe_checkpoint
\* A checkpointer that does not wait for the delivery reports.
RECURSIVE checkpoint_loop_ignores_pending(_)
checkpoint_loop_ignores_pending(s) ==
    LET xact == s.xact_list[s.xact_tail] IN
    IF xact.commit_lsn > 0 \/ xact.xid = 0
    THEN LET s1 == [s EXCEPT
                     !.fsync_lsn = xact.commit_lsn,
                     !.taking_snapshot =
                         IF xact.xid = 0 /\ xact.commit_lsn > 0 THEN FALSE ELSE @,
                     !.xact_tail = (s.xact_tail + 1) % XACT_LIST_LEN,
                     !.xacts_in_flight = @ \ {s.xact_tail},
                     !.last_ckpt = Append(@, xact)]
         IN IF xact_list_empty(s1) THEN s1
            ELSE checkpoint_loop_ignores_pending(s1)
    ELSE s

RECURSIVE checkpoint_loop(_)
checkpoint_loop(s) ==
    LET xact == s.xact_list[s.xact_tail] IN
    IF xact.pending_events = 0 /\ (xact.commit_lsn > 0 \/ xact.xid = 0)
    THEN LET s1 == [s EXCEPT
                     !.fsync_lsn = xact.commit_lsn,
                     !.taking_snapshot =
                         IF xact.xid = 0 /\ xact.commit_lsn > 0 THEN FALSE ELSE @,
                     !.xact_tail = (s.xact_tail + 1) % XACT_LIST_LEN,
                     !.xacts_in_flight = @ \ {s.xact_tail},
                     !.last_ckpt = Append(@, xact)]
         IN IF xact_list_empty(s1) THEN s1 ELSE checkpoint_loop(s1)
    ELSE s

maybe_checkpoint(s) == checkpoint_loop([s EXCEPT !.last_ckpt = <<>>])

\* ---------------------------------------------------------- on_deliver_msg
\* The producer reports one message: envelope env, msg_err TRUE on failure.
\* A delivery callback that forgets to call the checkpointer.
on_deliver_msg_no_checkpoint(s, env, msg_err) ==
    LET s0 == [s EXCEPT !.inflight = @ \ {env},
                        !.last_report = [env |-> env, err |-> msg_err]]
        s1 == IF msg_err THEN handle_error(s0) ELSE s0
    IN IF s1.pc = "exited" THEN s1
       ELSE [s1 EXCEPT !.xact_list[env.xact].pending_events = @ - 1,
                       !.envelopes = @ \ {env}]

\* A delivery callback that charges the report to the transaction at head.
on_deliver_msg_decrements_head(s, env, msg_err) ==
    LET s0 == [s EXCEPT !.inflight = @ \ {env},
                        !.last_report = [env |-> env, err |-> msg_err]]
        s1 == IF msg_err THEN handle_error(s0) ELSE s0
    IN IF s1.pc = "exited" THEN s1
       ELSE LET s2 == [s1 EXCEPT
                        !.xact_list[s.xact_head].pending_events = @ - 1]
                s3 == maybe_checkpoint(s2)
            IN [s3 EXCEPT !.envelopes = @ \ {env}]

on_deliver_msg(s, env, msg_err) ==
    LET s0 == [s EXCEPT !.inflight = @ \ {env},
                        !.last_report = [env |-> env, err |-> msg_err]]
        s1 == IF msg_err THEN handle_error(s0) ELSE s0
    IN IF s1.pc = "exited" THEN s1
       ELSE LET s2 == [s1 EXCEPT
                        !.xact_list[env.xact].pending_events = @ - 1]
                s3 == maybe_checkpoint(s2)
            IN [s3 EXCEPT !.envelopes = @ \ {env}]

\* rd_kafka_poll serves the delivery reports that are ready, in some order.
RECURSIVE Reports(_)
Reports(Q) ==
    {<<>>} \cup
    UNION { { <<[env |-> ef[1], err |-> ef[2]]>> \o r : r \in Reports(Q \ {ef[1]}) }
            : ef \in Q \X BOOLEAN }

RECURSIVE rd_kafka_poll(_, _)
rd_kafka_poll(s, reports) ==
    IF reports = <<>> \/ s.pc = "exited" THEN s
    ELSE rd_kafka_poll(on_deliver_msg(s, Head(reports).env, Head(reports).err),
                       Tail(reports))

\* ------------------------------------------------------------ backpressure
\* ka_err: replication_stream_keepalive failed.
\* A backpressure that sends the keepalive before it polls the producer.
backpressure_keepalive_first(s, reports, ka_err) ==
    LET s1 == rd_kafka_poll([s EXCEPT !.keepalive_lsn = s.fsync_lsn], reports) IN
    IF s1.pc = "exited" THEN s1
    ELSE IF s1.received_shutdown_signal THEN exit_nicely(s1, 0)
    ELSE IF ka_err THEN exit_nicely(s1, 1)
    ELSE s1

\* A backpressure that treats the shutdown signal as an error.
backpressure_shutdown_is_error(s, reports, ka_err) ==
    LET s1 == rd_kafka_poll([s EXCEPT !.keepalive_lsn = -1], reports) IN
    IF s1.pc = "exited" THEN s1
    ELSE IF s1.received_shutdown_signal THEN exit_nicely(s1, 1)
    ELSE LET s2 == [s1 EXCEPT !.keepalive_lsn = s1.fsync_lsn] IN
         IF ka_err THEN exit_nicely(s2, 1) ELSE s2

\* A backpressure that does not look at the shutdown flag.
backpressure_ignores_signal(s, reports, ka_err) ==
    LET s1 == rd_kafka_poll([s EXCEPT !.keepalive_lsn = -1], reports) IN
    IF s1.pc = "exited" THEN s1
    ELSE LET s2 == [s1 EXCEPT !.keepalive_lsn = s1.fsync_lsn] IN
         IF ka_err THEN exit_nicely(s2, 1) ELSE s2

backpressure(s, reports, ka_err) ==
    LET s1 == rd_kafka_poll([s EXCEPT !.keepalive_lsn = -1], reports) IN
    IF s1.pc = "exited" THEN s1
    ELSE IF s1.received_shutdown_signal THEN exit_nicely(s1, 0)
    ELSE LET s2 == [s1 EXCEPT !.keepalive_lsn = s1.fsync_lsn] IN
         IF ka_err THEN exit_nicely(s2, 1) ELSE s2

\* ------------------------------------------------------------ on_begin_txn
\* The part of on_begin_txn after the while loop.
begin_slot(s, xid) ==
    LET h == (s.xact_head + 1) % XACT_LIST_LEN IN
    [s EXCEPT !.xact_head = h,
              !.xact_list[h] = transaction_info(xid, 0, 0, 0),
              !.xacts_in_flight = @ \cup {h},
              !.slot_txn[h] = s.n_txns,
              !.pc = "main",
              !.arg = <<>>,
              !.open_xact = TRUE]

\* A begin that does not wait when the ring is full.
on_begin_txn_no_wait(s, xid) ==
    IF xid = 0 /\ ~(s.xact_tail = 0 /\ xact_list_empty(s))
    THEN exit_nicely([s EXCEPT !.arg = [xid |-> xid]], 1)
    ELSE begin_slot(s, xid)

\* A begin that accepts a snapshot whenever the ring is empty.
on_begin_txn_any_tail(s, xid) ==
    IF xid = 0 /\ ~xact_list_empty(s)
    THEN exit_nicely([s EXCEPT !.arg = [xid |-> xid]], 1)
    ELSE IF xact_list_full(s)
         THEN [s EXCEPT !.pc = "begin_wait", !.arg = [xid |-> xid]]
         ELSE begin_slot(s, xid)

on_begin_txn(s, xid) ==
    IF xid = 0 /\ ~(s.xact_tail = 0 /\ xact_list_empty(s))
    THEN exit_nicely([s EXCEPT !.arg = [xid |-> xid]], 1)
    ELSE IF xact_list_full(s)
         THEN [s EXCEPT !.pc = "begin_wait", !.arg = [xid |-> xid]]
         ELSE begin_slot(s, xid)

OnBeginTxn ==
    /\ pc = "main"
    /\ ~received_shutdown_signal
    /\ ~open_xact
    /\ n_txns < MaxTxns
    /\ \E xid \in Xids :
         Become(on_begin_txn(
                    [State EXCEPT !.n_txns = @ + 1,
                                  !.last_call = [fn |-> "on_begin_txn", xid |-> xid]],
                    xid))

\* One turn of the while (xact_list_full(context)) loop.
BeginBackpressure ==
    /\ pc = "begin_wait"
    /\ \E reports \in Reports(inflight), ka_err \in BOOLEAN :
         LET s1 == backpressure(State, reports, ka_err) IN
         Become(IF s1.pc = "exited" \/ xact_list_full(s1)
                THEN s1
                ELSE begin_slot(s1, arg.xid))

\* ----------------------------------------------------------- on_commit_txn
on_commit_txn(s, wal_pos, xid) ==
    LET s0 == [s EXCEPT !.last_call = [fn |-> "on_commit_txn", xid |-> xid,
                                       wal_pos |-> wal_pos]]
    IN IF xid # s.xact_list[s.xact_head].xid
       THEN exit_nicely(s0, 1)
       ELSE maybe_checkpoint(
                [s0 EXCEPT !.xact_list[s.xact_head].commit_lsn = wal_pos,
                           !.open_xact = FALSE])

OnCommitTxn ==
    /\ pc = "main"
    /\ ~received_shutdown_signal
    /\ open_xact
    /\ \E xid \in Xids, wal_pos \in Lsns :
         Become(on_commit_txn(State, wal_pos, xid))

\* ---------------------------------------------------------- send_kafka_msg
\* if (b != NULL) free(b).
free(b) ==
    CASE b = "none" -> "none"
      [] b = "owned" -> "freed"
      [] OTHER -> "double_free"

\* A buffer passed to rd_kafka_produce, which reads it.
produce_arg(b) == IF b \in {"none", "owned"} THEN b ELSE "use_after_free"

\* RD_KAFKA_MSG_F_FREE: an accepted payload belongs to the broker client.
msg_f_free(b) == IF b = "owned" THEN "handed" ELSE b

\* The buffers after the encoder: on success the caller owns the key, and
\* the value unless the event is a tombstone (val_bin NULL); on failure the
\* encoder leaves nothing for the caller to free.
encode_msg(s, enc_ok) ==
    IF enc_ok
    THEN [key |-> "owned",
          val |-> IF s.last_call.fn = "on_delete_row" THEN "none" ELSE "owned"]
    ELSE [key |-> "none", val |-> "none"]

\* A send that does not look the relation up.
send_kafka_msg_skips_lookup(s, table_ok, enc_ok) ==
    LET envelope == [row |-> s.n_rows + 1, xact |-> s.xact_head,
                     txn |-> s.slot_txn[s.xact_head]]
        before == s.xact_list[s.xact_head]
        s1 == [s EXCEPT !.xact_list[s.xact_head].recvd_events = @ + 1,
                        !.xact_list[s.xact_head].pending_events = @ + 1,
                        !.envelopes = @ \cup {envelope},
                        !.n_rows = @ + 1,
                        !.bp_calls = 0,
                        !.qfull_seen = 0,
                        !.bufs = [key |-> "none", val |-> "none"]]
    IN IF ~enc_ok
       THEN [s1 EXCEPT !.pc = "returned",
                       !.bufs = encode_msg(s, FALSE),
                       !.arg = [cause |-> "encode", before |-> before]]
       ELSE [s1 EXCEPT !.pc = "produce",
                       !.bufs = encode_msg(s, TRUE),
                       !.arg = [envelope |-> envelope, before |-> before]]

\* send_kafka_msg up to the enqueue loop.  table_ok: table_mapper_lookup
\* found the relation; enc_ok: the encoder returned 0.
send_kafka_msg(s, table_ok, enc_ok) ==
    LET envelope == [row |-> s.n_rows + 1, xact |-> s.xact_head,
                     txn |-> s.slot_txn[s.xact_head]]
        before == s.xact_list[s.xact_head]
        s1 == [s EXCEPT !.xact_list[s.xact_head].recvd_events = @ + 1,
                        !.xact_list[s.xact_head].pending_events = @ + 1,
                        !.envelopes = @ \cup {envelope},
                        !.n_rows = @ + 1,
                        !.bp_calls = 0,
                        !.qfull_seen = 0,
                        !.bufs = [key |-> "none", val |-> "none"]]
    IN IF ~table_ok
       THEN [s1 EXCEPT !.pc = "returned",
                       !.arg = [cause |-> "no_table", before |-> before]]
       ELSE IF ~enc_ok
       THEN [s1 EXCEPT !.pc = "returned",
                       !.bufs = encode_msg(s, FALSE),
                       !.arg = [cause |-> "encode", before |-> before]]
       ELSE [s1 EXCEPT !.pc = "produce",
                       !.bufs = encode_msg(s, TRUE),
                       !.arg = [envelope |-> envelope, before |-> before]]

\* on_insert_row and on_update_row call send_kafka_msg and return its result.
OnRow ==
    /\ pc = "main"
    /\ ~received_shutdown_signal
    /\ open_xact
    /\ n_rows < MaxRows
    /\ \E table_ok \in BOOLEAN, enc_ok \in BOOLEAN :
         Become(send_kafka_msg(
                    [State EXCEPT !.last_call =
                        [fn |-> "on_insert_row", relid_registered |-> table_ok]],
                    table_ok, enc_ok))

\* A delete handler that sends a tombstone whether or not it has a key.
on_delete_row_sends_unkeyed(s, key_bin, table_ok, enc_ok) ==
    send_kafka_msg(
        [s EXCEPT !.last_call = [fn |-> "on_delete_row", key_bin |-> key_bin,
                                 relid_registered |-> table_ok]],
        table_ok, enc_ok)

\* on_delete_row: with a key (key_bin not NULL) it sends the tombstone,
\* without one it returns 0.
on_delete_row(s, key_bin, table_ok, enc_ok) ==
    LET s0 == [s EXCEPT !.last_call = [fn |-> "on_delete_row",
                                       key_bin |-> key_bin,
                                       relid_registered |-> table_ok]]
    IN IF key_bin
       THEN send_kafka_msg(s0, table_ok, enc_ok)
       ELSE [s0 EXCEPT !.n_rows = @ + 1]

OnDeleteRow ==
    /\ pc = "main"
    /\ ~received_shutdown_signal
    /\ open_xact
    /\ n_rows < MaxRows
    /\ \E key_bin \in BOOLEAN, table_ok \in BOOLEAN, enc_ok \in BOOLEAN :
         Become(on_delete_row(State, key_bin, table_ok, enc_ok))

\* ------------------------------------------------------------ on_keepalive
\* A keepalive handler that always reports success.
on_keepalive_always_ok(s) == "0"

\* The value on_keepalive returns.
on_keepalive(s) ==
    IF xact_list_empty(s) THEN "0" ELSE "FRAME_READER_SYNC_PENDING"

OnKeepalive ==
    /\ pc = "main"
    /\ ~received_shutdown_signal
    /\ Become([State EXCEPT !.last_call = [fn |-> "on_keepalive",
                                           ret |-> on_keepalive(State)]])

\* One turn of the while (!enqueued) loop: rd_kafka_produce answers
\* accepted (err = 0), queue full (err # 0, errno ENOBUFS) or another error.
\* When it accepts, errno is whatever the library left there: reset, or the
\* value of the last failure.
\* An accepting turn that frees the value as well as the key.
produce_accepted_frees_val(s, new_errno, reports, ka_err) ==
    LET envelope == s.arg.envelope
        s1 == [s EXCEPT !.inflight = @ \cup {envelope},
                        !.produced = Append(@, envelope.row),
                        !.errno = new_errno,
                        !.bufs = [key |-> produce_arg(s.bufs.key),
                                  val |-> msg_f_free(produce_arg(s.bufs.val))]]
        s2 == IF new_errno = "queue_full"
              THEN backpressure([s1 EXCEPT !.bp_calls = @ + 1], reports, ka_err)
              ELSE s1
    IN IF s2.pc = "exited" THEN s2
       ELSE [s2 EXCEPT !.pc = "main", !.arg = <<>>,
                       !.bufs.key = free(@), !.bufs.val = free(@)]

produce_accepted(s, new_errno, reports, ka_err) ==
    LET envelope == s.arg.envelope
        s1 == [s EXCEPT !.inflight = @ \cup {envelope},
                        !.produced = Append(@, envelope.row),
                        !.errno = new_errno,
                        !.bufs = [key |-> produce_arg(s.bufs.key),
                                  val |-> msg_f_free(produce_arg(s.bufs.val))]]
        s2 == IF new_errno = "queue_full"
              THEN backpressure([s1 EXCEPT !.bp_calls = @ + 1], reports, ka_err)
              ELSE s1
    IN IF s2.pc = "exited" THEN s2
       ELSE [s2 EXCEPT !.pc = "main", !.arg = <<>>, !.bufs.key = free(@)]

\* A retry loop that takes the refused message for submitted.
produce_queue_full_submits(s, reports, ka_err) ==
    backpressure([s EXCEPT !.errno = "queue_full",
                           !.qfull_seen = @ + 1,
                           !.bp_calls = @ + 1,
                           !.bufs = [key |-> produce_arg(s.bufs.key),
                                     val |-> produce_arg(s.bufs.val)],
                           !.inflight = @ \cup {s.arg.envelope},
                           !.produced = Append(@, s.arg.envelope.row)],
                 reports, ka_err)

produce_queue_full(s, reports, ka_err) ==
    backpressure([s EXCEPT !.errno = "queue_full",
                           !.qfull_seen = @ + 1,
                           !.bp_calls = @ + 1,
                           !.bufs = [key |-> produce_arg(s.bufs.key),
                                     val |-> produce_arg(s.bufs.val)]],
                 reports, ka_err)

\* A failing turn that returns without freeing the buffers.
produce_failed_leaks(s) ==
    [s EXCEPT !.errno = "other",
              !.pc = "returned",
              !.bufs = [key |-> produce_arg(s.bufs.key),
                        val |-> produce_arg(s.bufs.val)],
              !.arg = [cause |-> "produce", before |-> s.arg.before]]

produce_failed(s) ==
    [s EXCEPT !.errno = "other",
              !.pc = "returned",
              !.bufs = [key |-> free(produce_arg(s.bufs.key)),
                        val |-> free(produce_arg(s.bufs.val))],
              !.arg = [cause |-> "produce", before |-> s.arg.before]]

ProduceAccepted ==
    /\ pc = "produce"
    /\ \E new_errno \in {"none", errno} :
         IF new_errno = "queue_full"
         THEN \E reports \in Reports(inflight \cup {arg.envelope}),
                 ka_err \in BOOLEAN :
                 Become(produce_accepted(State, new_errno, reports, ka_err))
         ELSE Become(produce_accepted(State, new_errno, <<>>, FALSE))

ProduceQueueFull ==
    /\ pc = "produce"
    /\ qfull_seen < MaxQueueFull
    /\ \E reports \in Reports(inflight), ka_err \in BOOLEAN :
         Become(produce_queue_full(State, reports, ka_err))

ProduceFailed ==
    /\ pc = "produce"
    /\ Become(produce_failed(State))

\* A row callback returned non-zero.  The frame reader hands the error to
\* the supervisor: an unknown relation is fatal, the other errors go through
\* on_client_error, that is handle_error.
callback_returned_error(s) ==
    IF s.arg.cause = "no_table"
    THEN exit_nicely(s, 1)
    ELSE LET s1 == handle_error(s) IN
         IF s1.pc = "exited" THEN s1
         ELSE [s1 EXCEPT !.pc = "main", !.arg = <<>>]

CallbackReturnedError ==
    /\ pc = "returned"
    /\ Become(callback_returned_error(State))

\* ------------------------------------------------------------ the main loop
\* rd_kafka_poll(context->kafka, 0) at the end of a turn of the main loop.
MainKafkaPoll ==
    /\ pc = "main"
    /\ ~received_shutdown_signal
    /\ \E reports \in Reports(inflight) \ {<<>>} :
         Become(rd_kafka_poll(State, reports))

\* The loop condition fails and main calls exit_nicely(context, 0).
MainLoopExit ==
    /\ pc = "main"
    /\ received_shutdown_signal
    /\ Become(exit_nicely(State, 0))

handle_shutdown_signal ==
    /\ pc # "exited"
    /\ ~received_shutdown_signal
    /\ Become([State EXCEPT !.received_shutdown_signal = TRUE])

\* ------------------------------------------------------------ specification
\* init_producer: the context is zeroed, xact_head = XACT_LIST_LEN - 1.
InitProducer ==
    /\ xact_list = [i \in Slots |-> transaction_info(0, 0, 0, 0)]
    /\ xact_head = XACT_LIST_LEN - 1
    /\ xact_tail = 0
    /\ fsync_lsn = 0
    /\ taking_snapshot \in BOOLEAN
    /\ error_policy \in {"log", "exit"}
    /\ received_shutdown_signal = FALSE
    /\ errno = "none"
    /\ pc = "main"
    /\ arg = <<>>
    /\ exit_status = -1
    /\ slot_dropped = FALSE
    /\ inflight = {}
    /\ envelopes = {}
    /\ produced = <<>>
    /\ last_ckpt = <<>>
    /\ last_report = <<>>
    /\ bp_calls = 0
    /\ qfull_seen = 0
    /\ n_rows = 0
    /\ n_txns = 0
    /\ open_xact = FALSE
    /\ last_call = [fn |-> "none"]
    /\ xacts_in_flight = {}
    /\ n_unpaired = 0
    /\ keepalive_lsn = -1
    /\ bufs = [key |-> "none", val |-> "none"]
    /\ slot_txn = [i \in Slots |-> 0]

\* No table schema has arrived.
Init ==
    /\ InitProducer
    /\ schema = [namespace |-> <<>>, name |-> <<>>]
    /\ avro_1_8 = TRUE
    /\ topic_name = [returned |-> FALSE, value |-> <<>>]

Next ==
    \/ OnBeginTxn
    \/ BeginBackpressure
    \/ OnCommitTxn
    \/ OnRow
    \/ OnDeleteRow
    \/ OnKeepalive
    \/ ProduceAccepted
    \/ ProduceQueueFull
    \/ ProduceFailed
    \/ CallbackReturnedError
    \/ MainKafkaPoll
    \/ MainLoopExit
    \/ handle_shutdown_signal

Spec == Init /\ [][Next]_vars

\* An upstream that may also send a commit event outside a transaction
\* (before the first begin, or a second commit after a commit).
OnCommitTxnUnpaired ==
    /\ pc = "main"
    /\ ~received_shutdown_signal
    /\ ~open_xact
    /\ n_unpaired < MaxUnpaired
    /\ \E xid \in Xids, wal_pos \in Lsns :
         Become(on_commit_txn([State EXCEPT !.n_unpaired = @ + 1], wal_pos, xid))

NextAnyUpstream == Next \/ OnCommitTxnUnpaired

SpecAnyUpstream == Init /\ [][NextAnyUpstream]_vars

\* ----------------------------------------------- topic_name_from_avro_schema
\* Strings are sequences of characters.  GENERATED_SCHEMA_NAMESPACE, whose
\* value is defined outside this file, and "public" are written with two
\* characters each, so that every namespace up to the length of
\* GENERATED_SCHEMA_NAMESPACE ".public" can be enumerated.
Chars == {"g", "s", ".", "p", "u", "b"}

GENERATED_SCHEMA_NAMESPACE == <<"g", "s">>

public == <<"p", "u">>

\* const char namespace[] = "dummy" of the build without AVRO_1_8.
dummy == <<"d", "u", "m", "m", "y">>

TABLE_NAME_BUFFER_LENGTH == 128

MaxNamespaceLen == 5

MaxTableNameLen == 1

RECURSIVE Strings(_)
Strings(n) ==
    IF n = 0 THEN {<<>>}
    ELSE LET S == Strings(n - 1) IN
         S \cup {Append(x, c) : x \in {y \in S : Len(y) = n - 1}, c \in Chars}

Min(a, b) == IF a < b THEN a ELSE b

\* sscanf(namespace, GENERATED_SCHEMA_NAMESPACE ".%s", topic_name): the
\* literal part of the format is matched character by character, then %s
\* stores what is left of the input (the strings here hold no white space).
\* The result is the number of conversions stored: 1 with topic_name
\* written; 0 when a character of the input differs from the format
\* (matching failure); EOF, -1, when the input ends before the conversion
\* has read a character (input failure).  In the last two cases topic_name
\* is not written.
sscanf(namespace) ==
    LET fmt == GENERATED_SCHEMA_NAMESPACE \o <<".">>
        n == Min(Len(fmt), Len(namespace))
    IN IF \E i \in 1 .. n : namespace[i] # fmt[i]
       THEN [matched |-> 0, written |-> FALSE, topic_name |-> <<>>]
       ELSE IF Len(namespace) <= Len(fmt)
       THEN [matched |-> -1, written |-> FALSE, topic_name |-> <<>>]
       ELSE [matched |-> 1, written |-> TRUE,
             topic_name |-> SubSeq(namespace, Len(fmt) + 1, Len(namespace))]

\* strncpy(topic_name, src, TABLE_NAME_BUFFER_LENGTH) followed by
\* topic_name[TABLE_NAME_BUFFER_LENGTH - 1] = 0.
strncpy(src) == SubSeq(src, 1, Min(Len(src), TABLE_NAME_BUFFER_LENGTH - 1))

\* strncat(dst, src, TABLE_NAME_BUFFER_LENGTH - strlen(dst) - 1).
strncat(dst, src) ==
    dst \o SubSeq(src, 1, Min(Len(src), TABLE_NAME_BUFFER_LENGTH - Len(dst) - 1))

\* The contents the local array topic_name may have when sscanf has not
\* written it: any string, here up to the length of "public".
Uninitialised == Strings(Len(public))

\* The values topic_name_from_avro_schema may return.  When sscanf returns
\* EOF, !matched is false and strcmp and strncat read the array sscanf
\* has not written.
topic_name_from_avro_schema(sch, has_avro_1_8) ==
    LET table_name == sch.name
        namespace == IF has_avro_1_8 THEN sch.namespace ELSE dummy
        r == sscanf(namespace)
    IN IF r.matched = 0
       THEN {strncpy(table_name)}
       ELSE {IF b = public
             THEN strncpy(table_name)
             ELSE strncat(strncat(b, <<".">>), table_name)
             : b \in IF r.written THEN {r.topic_name} ELSE Uninitialised}

\* on_table_schema computes the topic name of the schema it is given.
OnTableSchema ==
    /\ ~topic_name.returned
    /\ \E v \in topic_name_from_avro_schema(schema, avro_1_8) :
         topic_name' = [returned |-> TRUE, value |-> v]
    /\ UNCHANGED <<xact_list, xact_head, xact_tail, fsync_lsn, taking_snapshot,
                   error_policy, received_shutdown_signal, errno, pc, arg,
                   exit_status, slot_dropped, inflight, envelopes, produced,
                   last_ckpt, last_report, bp_calls, qfull_seen, n_rows, n_txns,
                   open_xact, last_call, xacts_in_flight, n_unpaired,
                   keepalive_lsn, bufs, slot_txn, schema, avro_1_8>>

\* The schemas a table may arrive with: any namespace, any non-empty name.
InitTopicName ==
    /\ InitProducer
    /\ ~taking_snapshot
    /\ error_policy = "log"
    /\ schema \in [namespace : Strings(MaxNamespaceLen),
                    name : Strings(MaxTableNameLen) \ {<<>>}]
    /\ avro_1_8 \in BOOLEAN
    /\ topic_name = [returned |-> FALSE, value |-> <<>>]

NextTopicName == OnTableSchema

SpecTopicName == InitTopicName /\ [][NextTopicName]_vars

TypeOK ==
    /\ xact_head \in Slots
    /\ xact_tail \in Slots
    /\ fsync_lsn \in 0 .. MaxLsn
    /\ pc \in {"main", "begin_wait", "produce", "returned", "exited"}
    /\ errno \in ErrnoValues
    /\ inflight \subseteq envelopes

\* ------------------------------------------------------------------ claims
\* Slot i holds a transaction begun and not yet passed by the tail.
InRing(i) ==
    (XACT_LIST_LEN + i - xact_tail) % XACT_LIST_LEN < xact_list_length(State)

NextSlot(i) == (i + 1) % XACT_LIST_LEN

\* C1: fsync_lsn never decreases, whatever begin, commit, row, delivery and
\* keepalive events arrive: no step of the program lowers it.
C1_FsyncNeverDecreases == [][fsync_lsn' >= fsync_lsn]_vars

\* C2: every transaction the checkpointer passes, the snapshot transaction
\* included, has received its commit event (commit_lsn > 0) and has
\* pending_events = 0 at the moment the tail moves past it.
C2_CheckpointOnlyCommittedDelivered ==
    \A k \in 1 .. Len(last_ckpt) :
        /\ last_ckpt[k].commit_lsn > 0
        /\ last_ckpt[k].pending_events = 0

\* C3: transactions are checkpointed in begin/commit order.  (a) While the
\* transaction at the tail keeps an undelivered message, no step moves the
\* tail or fsync_lsn, whatever was delivered for later transactions.  (b) When
\* the last delivery of the committed tail transaction T1 arrives and its
\* successor T2, the head, is committed and fully delivered, that one step
\* drains both and leaves fsync_lsn = commit_lsn(T2) and the ring empty.
C3_TailBlocksUntilDelivered ==
    (~xact_list_empty(State)
       /\ xact_list[xact_tail].pending_events > 0
       /\ xact_list'[xact_tail].pending_events > 0)
    => (xact_tail' = xact_tail /\ fsync_lsn' = fsync_lsn)

C3_LastDeliveryDrainsBoth ==
    LET T1 == xact_tail
        T2 == NextSlot(xact_tail)
    IN (/\ xact_list_length(State) = 2
        /\ xact_list[T1].pending_events = 1
        /\ xact_list[T1].commit_lsn > 0
        /\ xact_list[T2].pending_events = 0
        /\ xact_list[T2].commit_lsn > 0
        /\ xact_list[T2].recvd_events > 0
        /\ \E env \in inflight : env.xact = T1 /\ env \notin inflight'
        /\ pc' # "exited")
       => (/\ fsync_lsn' = xact_list[T2].commit_lsn
           /\ xact_tail' = NextSlot(T2)
           /\ Len(last_ckpt') = 2)

C3_CheckpointInOrder ==
    [][C3_TailBlocksUntilDelivered /\ C3_LastDeliveryDrainsBoth]_vars

\* C3 witness: T1 and T2 were both drained by one checkpoint after T2 had been
\* fully delivered first: two transactions with rows passed in one call.
C3_Witness ==
    /\ Len(last_ckpt) = 2
    /\ last_ckpt[1].recvd_events > 0
    /\ last_ckpt[2].recvd_events > 0
    /\ last_ckpt[1].commit_lsn > 0
    /\ fsync_lsn = last_ckpt[2].commit_lsn
    /\ xact_list_empty(State)

\* C4: after the commit of a transaction whose rows have all been
\* acknowledged, fsync_lsn reaches its commit position within finitely many
\* polls.  When the producer holds no message any more, no further poll can
\* change anything, so by then every committed, fully acknowledged
\* transaction of the ring must have fsync_lsn >= its commit position.
C4_AckedCommitIsCheckpointed ==
    (pc = "main" /\ inflight = {})
    => \A i \in Slots :
         (InRing(i) /\ xact_list[i].commit_lsn > 0
                    /\ xact_list[i].pending_events = 0)
         => fsync_lsn >= xact_list[i].commit_lsn

\* C5: a send that returns an error (relation not registered, encoder
\* failure, producer error other than queue-full) leaves recvd_events of the
\* head transaction as it was before the send and does not leave
\* pending_events raised.
C5_FailedSendLeavesCounters ==
    pc = "returned"
    => /\ xact_list[xact_head].recvd_events = arg.before.recvd_events
       /\ xact_list[xact_head].pending_events <= arg.before.pending_events

\* C6: outside send_kafka_msg's enqueue loop (between handlers, and at the
\* return of a failed send) the envelopes that are allocated are exactly the
\* envelopes of the messages enqueued and not yet reported: a send that did
\* not enqueue leaves none behind, a delivery report frees its own.
C6_EnvelopesAreEnqueuedMessages ==
    pc \in {"main", "begin_wait", "returned"}
    => Cardinality(envelopes) = Cardinality(inflight)

\* C7: a send the producer answered with queue-full N times before accepting
\* it has called backpressure exactly N times and has enqueued its message
\* once.
C7_BackpressureOncePerQueueFull ==
    pc = "main"
    => /\ bp_calls = qfull_seen
       /\ \A j, k \in 1 .. Len(produced) : produced[j] = produced[k] => j = k

\* C8: rows are handed to the producer in their order of arrival and each at
\* most once: the rows enqueued so far are, in order, a subsequence of the
\* row events received (rows are numbered 1, 2, ... as they arrive).
C8_EnqueuedInArrivalOrder ==
    /\ \A j, k \in 1 .. Len(produced) : j < k => produced[j] < produced[k]
    /\ \A k \in 1 .. Len(produced) : produced[k] \in 1 .. n_rows

\* C8 as stated: the rows enqueued so far are a prefix of the rows received.
C8_EnqueuedIsPrefix ==
    \A k \in 1 .. Len(produced) : produced[k] = k

\* C8 witness: two rows enqueued, the second after queue-full retries during
\* which backpressure ran.
C8_Witness ==
    /\ Len(produced) = 2
    /\ qfull_seen > 0
    /\ bp_calls > 0
    /\ pc = "main"

\* The slot at the tail could be checkpointed and the ring is not empty.
TailCheckpointable ==
    /\ ~xact_list_empty(State)
    /\ xact_list[xact_tail].pending_events = 0
    /\ (xact_list[xact_tail].commit_lsn > 0 \/ xact_list[xact_tail].xid = 0)

\* C9: a poll of the main loop that reports one message.  On success, and on
\* failure under the policy "log", pending_events of the envelope's
\* transaction is one less, the envelope is freed and the checkpointer has
\* run (nothing is left to checkpoint at the tail).  On failure under the
\* policy "exit" the process has exited with status 1 and no counter changed.
C9_Delivery ==
    \A env \in inflight :
      (pc = "main" /\ ~received_shutdown_signal /\ inflight' = inflight \ {env})
      => /\ last_report'.env = env
         /\ IF last_report'.err /\ error_policy # "log"
            THEN /\ pc' = "exited"
                 /\ exit_status' = 1
                 /\ xact_list' = xact_list
                 /\ xact_tail' = xact_tail
                 /\ fsync_lsn' = fsync_lsn
            ELSE /\ pc' = "main"
                 /\ xact_list'[env.xact].pending_events
                      = xact_list[env.xact].pending_events - 1
                 /\ env \notin envelopes'
                 /\ ~TailCheckpointable'

C9_OnDeliverMsg == [][C9_Delivery]_vars

\* C9 witness: a failed delivery under the policy "exit" ended the process
\* with the message's transaction still counting it as pending.
C9_Witness ==
    /\ pc = "exited"
    /\ exit_status = 1
    /\ error_policy = "exit"
    /\ last_report # <<>>
    /\ last_report.err
    /\ last_report.env \in envelopes
    /\ arg = <<>>
    /\ xact_list[last_report.env.xact].pending_events > 0

\* The xid a begin event carried, read after the step that received it.
BegunXid ==
    IF pc = "main" THEN xact_list[xact_head].xid ELSE arg.xid

\* C10: a begin event with xid 0 is fatal unless the ring is empty and the
\* tail is 0; when the ring is empty and the tail is 0 it opens the snapshot
\* transaction in a fresh slot at the head.
C10_Begin ==
    (n_txns' = n_txns + 1 /\ BegunXid' = 0)
    => IF xact_tail = 0 /\ xact_list_empty(State)
       THEN /\ pc' = "main"
            /\ xact_head' = NextSlot(xact_head)
            /\ xact_list'[xact_head'] = transaction_info(0, 0, 0, 0)
            /\ xact_tail' = xact_tail
       ELSE /\ pc' = "exited"
            /\ exit_status' = 1
            /\ xact_list' = xact_list
            /\ xact_head' = xact_head

C10_SnapshotMustBeFirst == [][C10_Begin]_vars

\* C10 witness: a snapshot begin arrived after another transaction and ended
\* the process.
C10_Witness ==
    /\ pc = "exited"
    /\ exit_status = 1
    /\ arg = [xid |-> 0]
    /\ n_txns >= 2

\* C11: while a snapshot is required (taking_snapshot set) the first begin
\* event must carry xid 0: a first begin with another xid ends the process
\* with a non-zero status.
C11_FirstBegin ==
    (/\ n_txns = 0
     /\ n_txns' = 1
     /\ taking_snapshot
     /\ last_call'.xid # 0)
    => (pc' = "exited" /\ exit_status' # 0)

C11_FirstBeginMustBeSnapshot == [][C11_FirstBegin]_vars

\* C12: a commit event whose xid differs from the xid of the head slot, or
\* that was not preceded by a begin, ends the process with a non-zero status.
\* Any other commit records commit_lsn = wal_pos on the head transaction,
\* changes no other field and no other slot, and runs the checkpointer
\* (nothing is left to checkpoint at the tail).
C12_Commit ==
    (last_call' # last_call /\ last_call'.fn = "on_commit_txn")
    => IF last_call'.xid # xact_list[xact_head].xid \/ ~open_xact
       THEN pc' = "exited" /\ exit_status' # 0
       ELSE /\ pc' = "main"
            /\ xact_head' = xact_head
            /\ xact_list' = [xact_list EXCEPT
                                ![xact_head].commit_lsn = last_call'.wal_pos]
            /\ ~TailCheckpointable'

C12_OnCommitTxn == [][C12_Commit]_vars

\* C13: on_keepalive returns the sync-pending code exactly when the ring is
\* not empty and 0 exactly when it is empty, and it changes nothing: not the
\* ring, not fsync_lsn, not the producer's queue, not the program's position.
C13_Keepalive ==
    (last_call' # last_call /\ last_call'.fn = "on_keepalive")
    => /\ last_call'.ret = (IF xact_tail = NextSlot(xact_head)
                            THEN "0" ELSE "FRAME_READER_SYNC_PENDING")
       /\ UNCHANGED <<xact_list, xact_head, xact_tail, fsync_lsn,
                      taking_snapshot, error_policy, received_shutdown_signal,
                      errno, pc, arg, exit_status, slot_dropped, inflight,
                      envelopes, produced, n_rows, n_txns>>

C13_OnKeepalive == [][C13_Keepalive]_vars

\* C13 witness: a keepalive answered sync-pending while a transaction was in
\* the ring with a message outstanding.
C13_Witness ==
    /\ last_call = [fn |-> "on_keepalive", ret |-> "FRAME_READER_SYNC_PENDING"]
    /\ pc = "main"
    /\ ~xact_list_empty(State)
    /\ inflight # {}

\* C14: head and tail are slot indices, the ring length is between 0 and
\* C-1, the ring is empty iff the length is 0 and full iff it is C-1, and the
\* length is the number of transactions begun and not yet checkpointed.
C14_RingLengthCountsInFlight ==
    /\ xact_head \in 0 .. (XACT_LIST_LEN - 1)
    /\ xact_tail \in 0 .. (XACT_LIST_LEN - 1)
    /\ xact_list_length(State) \in 0 .. (XACT_LIST_LEN - 1)
    /\ xact_list_empty(State) <=> (xact_tail = NextSlot(xact_head))
    /\ xact_list_full(State) <=> (NextSlot(NextSlot(xact_head)) = xact_tail)
    /\ xact_list_length(State) = Cardinality(xacts_in_flight)

\* C15, the waiting begin: a begin that finds the ring full changes neither
\* head nor any slot; while it waits, head and every slot's xid, recvd_events
\* and commit_lsn stay as they are (the polls of backpressure only lower
\* pending_events) and the ring is still full; when it proceeds it advances
\* head by one modulo C and zeroes that slot for its xid.
C15_Begin ==
    /\ (pc = "main" /\ pc' = "begin_wait")
       => (xact_list_full(State) /\ xact_head' = xact_head
             /\ xact_list' = xact_list)
    /\ (pc = "begin_wait" /\ pc' = "begin_wait")
       => /\ xact_head' = xact_head
          /\ xact_list_full(State)'
          /\ \A i \in Slots :
               xact_list'[i] = [xact_list[i] EXCEPT
                                  !.pending_events = xact_list'[i].pending_events]
    /\ (pc = "begin_wait" /\ pc' = "main")
       => /\ xact_head' = NextSlot(xact_head)
          /\ xact_list'[xact_head'] = transaction_info(arg.xid, 0, 0, 0)
          /\ xact_tail' # NextSlot(xact_head')

C15_BeginWaitsOnFullRing == [][C15_Begin]_vars

\* C15, progress: a begin blocked on a full ring eventually proceeds once
\* the outstanding messages are reported.  When the producer holds no
\* message any more the polls of backpressure change nothing, so a begin
\* must never be waiting in such a state.
C15_BlockedBeginProceeds ==
    pc = "begin_wait" => inflight # {}

\* C16: on_begin_txn never initialises a slot whose pending_events is
\* greater than 0 or to which an outstanding envelope points, so a delivery
\* report always decrements the transaction its message was enqueued for.
C16_Begin ==
    xact_head' # xact_head
    => /\ xact_list[xact_head'].pending_events = 0
       /\ \A env \in inflight : env.xact # xact_head'

C16_SlotNotReusedWhilePending == [][C16_Begin]_vars

\* C16 witness: the fourth begin of the run took slot 0 again, which the
\* first transaction had used, while messages of other transactions were
\* outstanding.
C16_Witness ==
    /\ n_txns = XACT_LIST_LEN + 1
    /\ pc = "main"
    /\ last_call.fn = "on_begin_txn"
    /\ xact_head = 0
    /\ xact_list[0].recvd_events = 0
    /\ inflight # {}
    /\ \A i \in Slots \ {0} : xact_list[i].recvd_events > 0

\* C17: on_delete_row with a nil key returns success (the program is back
\* in the main loop) without enqueueing a message, allocating an envelope or
\* changing recvd_events, pending_events, head, tail or fsync_lsn.
C17_DeleteNilKey ==
    (/\ n_rows' = n_rows + 1
     /\ last_call'.fn = "on_delete_row"
     /\ ~last_call'.key_bin)
    => /\ pc' = "main"
       /\ UNCHANGED <<xact_list, xact_head, xact_tail, fsync_lsn, inflight,
                      envelopes, produced, exit_status, errno>>

C17_DeleteWithoutKey == [][C17_DeleteNilKey]_vars

\* C17 witness: a delete without a key was handled inside a transaction that
\* has a message outstanding.
C17_Witness ==
    /\ last_call.fn = "on_delete_row"
    /\ ~last_call.key_bin
    /\ pc = "main"
    /\ n_rows = 2
    /\ Cardinality(inflight) = 1
    /\ xact_list[xact_head].recvd_events = 1
    /\ xact_list[xact_head].pending_events = 1

\* C18: after a run in which every transaction begun has been committed and
\* every message enqueued has been reported, the ring is empty and fsync_lsn
\* is the commit position of the last transaction committed (the head slot).
C18_QuiescentRunIsCheckpointed ==
    (/\ pc = "main"
     /\ n_txns > 0
     /\ ~open_xact
     /\ inflight = {})
    => /\ xact_list_empty(State)
       /\ fsync_lsn = xact_list[xact_head].commit_lsn

\* C19: the replication slot has been dropped exactly when the process has
\* exited with a non-zero status while the snapshot was still in progress.
C19_SlotDroppedIffSnapshotFailed ==
    slot_dropped <=> (pc = "exited" /\ taking_snapshot /\ exit_status # 0)

\* C19 witness: a fatal exit during the snapshot, after a row of the snapshot
\* was handed to the producer, dropped the slot.
C19_Witness ==
    /\ pc = "exited"
    /\ exit_status = 1
    /\ taking_snapshot
    /\ slot_dropped
    /\ xact_list[0].xid = 0
    /\ Len(produced) > 0

\* C20, only then: a step that clears taking_snapshot leaves a snapshot
\* transaction (xid 0) that has its commit position, no pending event and no
\* outstanding message.
C20_Cleared ==
    (taking_snapshot /\ ~taking_snapshot')
    => \E i \in Slots :
         /\ xact_list'[i].xid = 0
         /\ xact_list'[i].commit_lsn > 0
         /\ xact_list'[i].pending_events = 0
         /\ \A env \in inflight' : env.xact # i

C20_ClearedOnlyAfterSnapshotDone == [][C20_Cleared]_vars

\* C20, eventually: once the snapshot transaction has its commit event and
\* its messages have all been reported, the flag is cleared.  When the
\* producer holds no message any more nothing further can clear it, so by
\* then it must be clear.
C20_SnapshotDoneClearsFlag ==
    (/\ pc = "main"
     /\ inflight = {}
     /\ \E i \in Slots : xact_list[i].xid = 0 /\ xact_list[i].commit_lsn > 0)
    => ~taking_snapshot

\* C21: a backpressure call (one turn of the queue-full loop, or one turn of
\* the wait of a begin that keeps waiting) consumes no upstream event: head,
\* every slot's xid, commit_lsn and recvd_events and the event counts are
\* unchanged; pending_events, tail and fsync_lsn change only if its poll
\* reported a delivery.  Unless a shutdown signal has been received (or a
\* failed delivery ended the process inside the poll) it then sends one
\* keepalive carrying the fsync_lsn of that moment; after a signal it sends
\* none.
C21_Backpressure ==
    ((pc = "produce" /\ qfull_seen' = qfull_seen + 1)
       \/ (pc = "begin_wait" /\ pc' # "main"
             /\ received_shutdown_signal' = received_shutdown_signal))
    => /\ xact_head' = xact_head
       /\ \A i \in Slots :
            /\ xact_list'[i].xid = xact_list[i].xid
            /\ xact_list'[i].commit_lsn = xact_list[i].commit_lsn
            /\ xact_list'[i].recvd_events = xact_list[i].recvd_events
       /\ UNCHANGED <<n_rows, n_txns, last_call, produced>>
       /\ (inflight' = inflight)
            => UNCHANGED <<xact_list, xact_tail, fsync_lsn>>
       /\ IF received_shutdown_signal
          THEN keepalive_lsn' = -1 /\ pc' = "exited"
          ELSE \/ keepalive_lsn' = fsync_lsn'
               \/ /\ pc' = "exited"
                  /\ exit_status' = 1
                  /\ keepalive_lsn' = -1
                  /\ last_report'.err
                  /\ error_policy = "exit"

C21_BackpressureConsumesNothing == [][C21_Backpressure]_vars

\* C21 witness: a backpressure call whose poll moved fsync_lsn and which
\* then sent the keepalive with the new position, the send still retrying.
C21_Witness ==
    /\ pc = "produce"
    /\ qfull_seen > 0
    /\ fsync_lsn > 0
    /\ keepalive_lsn = fsync_lsn
    /\ Len(last_ckpt) > 0
    /\ last_ckpt[Len(last_ckpt)].recvd_events > 0

\* Number of steps the program can still take, at most, once the shutdown
\* flag is set: a send in progress may still return to the frame reader or
\* to the main loop before the loop condition is tested.
ShutdownRank(p) ==
    CASE p = "produce" -> 3
      [] p = "returned" -> 2
      [] p \in {"main", "begin_wait"} -> 1
      [] OTHER -> 0

\* C22 (as stated): a process that has received the shutdown signal ends
\* with exit status 0.  Stated on the exits taken inside the program's own
\* code (the main loop, the wait of a blocked begin, a queue-full retry), not
\* on those the frame reader takes after a callback returned an error.
C22_ExitStep ==
    /\ received_shutdown_signal
    /\ pc \in {"main", "begin_wait"}
         \/ (pc = "produce" /\ qfull_seen' > qfull_seen)
    /\ pc' = "exited"
    => exit_status' = 0

C22_ShutdownExitsZero == [][C22_ExitStep]_vars

\* C22 (amended): once the shutdown flag is set the process is never stuck
\* and every step brings it nearer to termination, so it terminates, from
\* the main loop, from the wait of a blocked begin and from a queue-full
\* retry alike; the main loop, once it tests the flag, consumes no upstream
\* event and exits with status 0; a blocked begin and a retrying send exit
\* with status 0 unless a failed delivery report under the policy 'exit'
\* ended the process inside the poll.
C22_Step ==
    received_shutdown_signal
    => /\ ShutdownRank(pc') < ShutdownRank(pc)
       /\ UNCHANGED <<n_rows, n_txns, last_call, open_xact>>
       /\ (pc = "main") => (pc' = "exited" /\ exit_status' = 0)
       /\ (pc = "begin_wait" \/ (pc = "produce" /\ bp_calls' > bp_calls))
            => /\ pc' = "exited"
               /\ \/ exit_status' = 0
                  \/ exit_status' = 1 /\ last_report'.err
                       /\ error_policy = "exit"

C22_ShutdownTerminates ==
    /\ []((received_shutdown_signal /\ pc # "exited") => ENABLED <<Next>>_vars)
    /\ [][C22_Step]_vars

\* C22 witness: the signal arrived during a queue-full retry and the
\* backpressure call ended the process with status 0.
C22_Witness ==
    /\ received_shutdown_signal
    /\ pc = "exited"
    /\ exit_status = 0
    /\ qfull_seen > 0
    /\ keepalive_lsn = -1

\* C23: after the main loop has observed the shutdown flag the process
\* keeps polling the producer, so that the delivery reports of the messages
\* in flight are still processed, and exits only when none is in flight (or
\* the grace period has elapsed).  Every report is available to any poll
\* here, so a drain never needs the grace period: the loop may leave with
\* the flag set only when no message is in flight.
C23_ExitStep ==
    (received_shutdown_signal /\ pc = "main" /\ pc' = "exited")
    => inflight = {}

C23_DrainsBeforeExit == [][C23_ExitStep]_vars

\* The states of a buffer in which nothing has gone wrong with it.
BufOK(b) == b \in {"none", "owned", "handed", "freed"}

\* C24: a send that failed in the encoder or in the enqueue (with an error
\* other than queue-full) is handled under the error policy: under 'exit' the
\* process terminates with a non-zero status, under 'log' it goes on with the
\* next event; in both cases no encoded buffer is left to the caller: after a
\* failed enqueue the key, and the value if there is one, have been freed.
C24_Step ==
    /\ (pc = "produce" /\ pc' = "returned")
         => /\ arg'.cause = "produce"
            /\ bufs'.key = "freed"
            /\ bufs'.val = IF bufs.val = "none" THEN "none" ELSE "freed"
    /\ (pc = "returned" /\ arg.cause \in {"encode", "produce"}
           /\ received_shutdown_signal' = received_shutdown_signal)
         => /\ bufs.key \in {"none", "freed"}
            /\ bufs.val \in {"none", "freed"}
            /\ bufs' = bufs
            /\ IF error_policy = "exit"
               THEN pc' = "exited" /\ exit_status' > 0
               ELSE pc' = "main" /\ exit_status' = exit_status

C24_SendErrorUnderPolicy == [][C24_Step]_vars

\* C24 witness: under 'log' an enqueue failed, key and value were freed and
\* the main loop goes on.
C24_Witness ==
    /\ pc = "main"
    /\ error_policy = "log"
    /\ errno = "other"
    /\ bufs = [key |-> "freed", val |-> "freed"]

\* C28: the encoded buffers have one owner throughout the retry loop.  While
\* the send is retrying the caller owns them: a queue-full turn frees
\* neither and the next turn passes the same buffers.  An accepting turn
\* hands the value to the broker client and the caller frees the key, once;
\* a turn failing otherwise frees both, once.  No buffer is freed twice or
\* passed on after it was freed.
C28_Step ==
    pc = "produce"
    => /\ bufs.key = "owned" /\ bufs.val \in {"owned", "none"}
       /\ (qfull_seen' > qfull_seen) => bufs' = bufs
       /\ (produced' # produced /\ pc' = "main")
            => /\ bufs'.key = "freed"
               /\ bufs'.val = IF bufs.val = "none" THEN "none" ELSE "handed"
       /\ (pc' = "returned")
            => /\ bufs'.key = "freed"
               /\ bufs'.val = IF bufs.val = "none" THEN "none" ELSE "freed"

C28_BuffersSingleOwner ==
    /\ [](BufOK(bufs.key) /\ BufOK(bufs.val))
    /\ [][C28_Step]_vars

\* C28 witness: a send was refused with queue-full, retried with the same
\* buffers and accepted: the value is the broker client's, the key is freed.
C28_Witness ==
    /\ pc = "main"
    /\ qfull_seen > 0
    /\ bufs = [key |-> "freed", val |-> "handed"]

\* The last upstream event was a row event that reaches send_kafka_msg
\* (insert, update, keyed delete) for a relation without registered schema.
RowOfUnknownRelid(lc) ==
    /\ lc.fn \in {"on_insert_row", "on_delete_row"}
    /\ (lc.fn = "on_delete_row") => lc.key_bin
    /\ ~lc.relid_registered

\* C25: a row event (insert, update, keyed delete) for a relation that has
\* no registered schema is fatal whatever the error policy: nothing is
\* enqueued for it and the process terminates with a non-zero status.
C25_Step ==
    /\ (pc = "main" /\ n_rows' = n_rows + 1 /\ RowOfUnknownRelid(last_call'))
         => /\ pc' = "returned"
            /\ UNCHANGED <<produced, inflight>>
    /\ (pc = "returned" /\ RowOfUnknownRelid(last_call)
           /\ received_shutdown_signal' = received_shutdown_signal)
         => /\ pc' = "exited"
            /\ exit_status' > 0
            /\ UNCHANGED <<produced, inflight>>

C25_UnknownRelidIsFatal == [][C25_Step]_vars

\* C25 witness: under the policy 'log' a row of an unknown relation ended
\* the process with status 1 and nothing was enqueued.
C25_Witness ==
    /\ RowOfUnknownRelid(last_call)
    /\ error_policy = "log"
    /\ pc = "exited"
    /\ exit_status = 1
    /\ produced = <<>>

\* C26: a row event that is sent is attributed to the transaction at head,
\* which is the transaction whose begin was the last to arrive: its envelope
\* records that slot, the counters of that slot and of no other are
\* incremented.  When a delivery report is served later, the slot its
\* envelope records still holds the same transaction, whether or not head has
\* moved, and it is that slot's pending_events that is decremented.
C26_Send ==
    (pc = "main" /\ envelopes' # envelopes /\ n_rows' = n_rows + 1)
    => /\ slot_txn[xact_head] = n_txns
       /\ \E env \in envelopes' :
            /\ envelopes' = envelopes \cup {env}
            /\ env \notin envelopes
            /\ env.xact = xact_head
            /\ env.txn = n_txns
       /\ xact_list'[xact_head].recvd_events
            = xact_list[xact_head].recvd_events + 1
       /\ xact_list'[xact_head].pending_events
            = xact_list[xact_head].pending_events + 1
       /\ \A i \in Slots \ {xact_head} : xact_list'[i] = xact_list[i]

C26_Delivery ==
    (pc \in {"main", "begin_wait"} /\ pc' # "exited"
       /\ inflight' \subseteq inflight
       /\ Cardinality(inflight \ inflight') = 1)
    => \E env \in inflight \ inflight' :
         /\ slot_txn[env.xact] = env.txn
         /\ xact_list'[env.xact].pending_events
              = xact_list[env.xact].pending_events - 1
         /\ \A i \in Slots \ {env.xact} :
              xact_list'[i].pending_events = xact_list[i].pending_events

C26_RowsAttributedToHead == [][C26_Send /\ C26_Delivery]_vars

\* C26 witness: a delivery was reported for a transaction after head had
\* moved to a later one; the report's slot still holds the old transaction
\* and the later one keeps its own undelivered message.
C26_Witness ==
    /\ pc = "main"
    /\ DOMAIN last_report # {}
    /\ ~last_report.err
    /\ last_report.env.xact # xact_head
    /\ last_report.env.txn < n_txns
    /\ slot_txn[last_report.env.xact] = last_report.env.txn
    /\ xact_list[xact_head].pending_events > 0

\* C29: on_keepalive returns success only when no enqueued message still
\* awaits its delivery report: whenever some slot, the snapshot's included,
\* has pending_events > 0, the keepalive callback returns the sync-pending
\* code.  Stated for the slots whose pending_events count a message that is
\* in flight.
C29_Keepalive ==
    (last_call' # last_call /\ last_call'.fn = "on_keepalive"
       /\ \E env \in inflight : xact_list[env.xact].pending_events > 0)
    => last_call'.ret = "FRAME_READER_SYNC_PENDING"

C29_KeepaliveOkOnlyWhenDelivered == [][C29_Keepalive]_vars

\* C29, for the keepalives that arrive between transactions (after a
\* commit and before the next begin): these do return the sync-pending code
\* whenever a message is in flight.
C29_KeepaliveBetweenTransactions ==
    [][~open_xact => C29_Keepalive]_vars

\* C30: maybe_checkpoint never advances the tail when the ring is empty: it
\* examines only slots that hold a transaction begun and not yet
\* checkpointed, so no step that starts with an empty ring moves the tail
\* or passes a slot.
C30_Step ==
    xact_list_empty(State)
    => /\ xact_tail' = xact_tail
       /\ (last_ckpt' # last_ckpt) => (last_ckpt' = <<>>)

C30_NoAdvanceOnEmptyRing == [][C30_Step]_vars

\* The namespace has the form GENERATED_SCHEMA_NAMESPACE.<pg_schema>.
HasGeneratedPrefix(namespace) ==
    LET fmt == GENERATED_SCHEMA_NAMESPACE \o <<".">>
    IN /\ Len(namespace) >= Len(fmt)
       /\ SubSeq(namespace, 1, Len(fmt)) = fmt

PgSchema(namespace) ==
    SubSeq(namespace, Len(GENERATED_SCHEMA_NAMESPACE) + 2, Len(namespace))

\* C27: in a build that reads the namespace, topic_name_from_avro_schema
\* returns the table name alone when the Postgres schema is public or the
\* namespace does not have the generated prefix, and <pg_schema>.<table>
\* otherwise.
C27_TopicNameRule ==
    (topic_name.returned /\ avro_1_8)
    => topic_name.value =
         IF ~HasGeneratedPrefix(schema.namespace)
            \/ PgSchema(schema.namespace) = public
         THEN schema.name
         ELSE PgSchema(schema.namespace) \o <<".">> \o schema.name

\* C27, for the namespaces on which sscanf does not meet the end of its
\* input early (it stores a schema name or finds a differing character):
\* for these the rule holds.
C27_TopicNameRuleWhenScanned ==
    (sscanf(schema.namespace).matched >= 0) => C27_TopicNameRule

\* C32: whenever no send is in the middle of its enqueue loop, every slot
\* has 0 <= pending_events <= recvd_events, and its pending_events is the
\* number of messages enqueued for its transaction whose delivery report
\* has not been processed yet.
C32_PendingCountsInFlight ==
    pc \in {"main", "begin_wait", "returned"}
    => \A i \in Slots :
         /\ 0 <= xact_list[i].pending_events
         /\ xact_list[i].pending_events <= xact_list[i].recvd_events
         /\ xact_list[i].pending_events
              = Cardinality({env \in inflight : env.xact = i})

\* C32, the bounds alone: in every state of a running process
\* 0 <= pending_events <= recvd_events for every slot, and no slot has
\* fewer pending_events than messages in flight.
C32_PendingWithinBounds ==
    pc # "exited"
    => \A i \in Slots :
         /\ 0 <= xact_list[i].pending_events
         /\ xact_list[i].pending_events <= xact_list[i].recvd_events
         /\ xact_list[i].pending_events
              >= Cardinality({env \in inflight : env.xact = i})

\* The step ends the run because of the shutdown signal: the main loop
\* finds the flag set, or a backpressure call does after its poll (a poll in
\* which no failed delivery ended the process under the policy 'exit').
ShutdownEndsRun ==
    /\ received_shutdown_signal
    /\ pc # "exited"
    /\ pc' = "exited"
    /\ \/ pc = "main"
       \/ /\ pc = "begin_wait" \/ (pc = "produce" /\ bp_calls' > bp_calls)
          /\ ~(/\ error_policy = "exit"
               /\ DOMAIN last_report' # {}
               /\ last_report' # last_report
               /\ last_report'.err)

\* C33: when the shutdown signal ends the run while the snapshot is still in
\* progress, in the main loop or inside backpressure, the exit status is 0
\* and the replication slot is not dropped.
C33_Step ==
    (ShutdownEndsRun /\ taking_snapshot')
    => (exit_status' = 0 /\ ~slot_dropped')

C33_ShutdownKeepsSlot == [][C33_Step]_vars

\* C33 witness: the signal ended the run inside a backpressure call of a
\* queue-full retry during the snapshot; status 0, slot kept.
C33_Witness ==
    /\ received_shutdown_signal
    /\ taking_snapshot
    /\ pc = "exited"
    /\ exit_status = 0
    /\ ~slot_dropped
    /\ qfull_seen > 0
    /\ keepalive_lsn = -1
    /\ xact_list[xact_head].xid = 0
    /\ xact_list[xact_head].pending_events > 0

\* C31: under the policy 'log' no committed transaction stays behind once
\* every message enqueued has been reported: when the main loop is between
\* callbacks and nothing is in flight, the only transaction begun and not yet
\* checkpointed is the one still open, whatever sends or deliveries failed
\* before.  (Nothing but a delivery report or a commit runs the
\* checkpointer, so a committed transaction left behind in such a state is
\* never checkpointed unless further messages are sent and reported.)
C31_CommittedIsCheckpointedUnderLog ==
    (error_policy = "log" /\ pc = "main" /\ inflight = {})
    => \A i \in xacts_in_flight : (i = xact_head /\ open_xact)

\* C31, for the runs in which no send failed (every envelope allocated was
\* enqueued), failed deliveries included: these leave no committed
\* transaction behind.
C31_CheckpointedAfterFailedDelivery ==
    (envelopes = {}) => C31_CommittedIsCheckpointedUnderLog

====
